---------------------------- MODULE Spec2Model ----------------------------
(***************************************************************************)
(* Model of src/src/engine/engine.js: the bookkeeping that multiplexes     *)
(* outgoing calls of a single-threaded canister over JavaScript promises.  *)
(*                                                                         *)
(* Call contexts are JavaScript objects: the model keeps them in a heap    *)
(* addressed by object references, because the engine compares and stores  *)
(* references (entered_call_context) next to ids (the keys of the map      *)
(* call_contexts, the field call_context_id of a callback).                *)
(***************************************************************************)
EXTENDS Integers, FiniteSets, Sequences, TLC

\* Width of an identifier in the model (31 in the source, MAX_ID_MASK).
IdBits == 2
\* Cap on pending_calls of one context (createCallback is not offered beyond).
MaxPending == 2
\* Cap on the call contexts registered at once (executeEndpoint is not offered
\* when it would leave more).
MaxContexts == 2

MAX_ID_MASK == 2^IdBits - 1
Ids == 0..MAX_ID_MASK

\* x & MAX_ID_MASK, for x >= 0 and a mask of the form 2^k - 1.
Mask(x) == x % (MAX_ID_MASK + 1)

\* JavaScript null and undefined.
Null == "null"
Undefined == "undefined"
\* References of call context objects. The model names an object after the
\* id it is created with; the names of the second row serve when an older
\* object with that id is still referred to.
RefNames == <<"c0", "c1", "c2", "c3", "c4", "c5", "c6", "c7",
              "d0", "d1", "d2", "d3", "d4", "d5", "d6", "d7">>
Refs == {RefNames[i] : i \in 1..Len(RefNames)}
RefOf(id, row) == RefNames[row * (Len(RefNames) \div 2) + id + 1]
\* No task: a promise nobody awaits, no handler running.
NoTask == "none"
NoReaction == [kind |-> "none", val |-> Null]
\* Longest run of allocations N the identifier-reuse properties speak of.
MaxN == 3

VARIABLES
    call_context_id,        \* cursor of the call context ids
    call_contexts,          \* Map: id -> reference of a call context
    callback_id,            \* cursor of the callback ids
    callbacks,              \* Map: id -> callback record
    entered_call_context,   \* reference, Null or Undefined
    heap,                   \* reference -> call context object
    pc,                     \* position of the single thread of control
    run,                    \* the handler that is executing (its context), or NoTask
    reaction,               \* the settled result of a handler whose .then reaction is queued
    ret,                    \* what the last entry point returned: a call context, Null if it threw
    hist                    \* the first ids one stream returned (recorded under SpecReuse)

vars == <<call_context_id, call_contexts, callback_id, callbacks,
          entered_call_context, heap, pc, run, reaction, ret, hist>>

----------------------------------------------------------------------------
(* Map helpers *)

\* A delete that removes nothing.
MapDelete_Keeps(m, k) == m

MapDelete(m, k) == [x \in (DOMAIN m) \ {k} |-> m[x]]
MapSet(m, k, v) == [x \in (DOMAIN m) \cup {k} |-> IF x = k THEN v ELSE m[x]]
\* Map.get: the value or undefined.
MapGet(m, k) == IF k \in DOMAIN m THEN m[k] ELSE Undefined

IsObject(r) == r \notin {Null, Undefined}

----------------------------------------------------------------------------
(* The do-while loops that look for the next available id. *)

\* A loop that takes the next id without looking at the map.
FindNext_NoSkip(id, keys, fuel) == Mask(id + 1)

\* A search that restarts from 0: the least id that is not a key.
FindNext_LowestFree(id, keys, fuel) ==
    IF keys = Ids THEN Mask(id + 1)
    ELSE CHOOSE n \in Ids \ keys : \A m \in Ids \ keys : n <= m

\* A loop that never wraps around: the least free id above id, and the
\* largest id when there is none.
FindNext_NoWrap(id, keys, fuel) ==
    LET above == {n \in Ids \ keys : n > id}
    IN  IF above = {} THEN MAX_ID_MASK
        ELSE CHOOSE n \in above : \A m \in above : n <= m

RECURSIVE FindNext(_, _, _)
\* do { id = (id + 1) & MAX_ID_MASK } while (map.get(id)), at most fuel + 1 rounds
FindNext(id, keys, fuel) ==
    LET n == Mask(id + 1)
    IN  IF n \in keys /\ fuel > 0 THEN FindNext(n, keys, fuel - 1) ELSE n

\* A loop that gives up after one round over the ids.
LoopEnds_GivesUp(keys) == TRUE

\* The loop ends exactly when some id is not a key.
LoopEnds(keys) == keys # Ids
NextId(id, keys) == FindNext(id, keys, MAX_ID_MASK + 1)

----------------------------------------------------------------------------
(* Garbage collection of the model's heap: objects nothing refers to.  *)

Reachable(cc, cbs, ent, r) ==
      {cc[k] : k \in DOMAIN cc}
    \cup {cbs[k].owner : k \in DOMAIN cbs}
    \cup {cbs[k].waiter : k \in DOMAIN cbs}
    \cup {ent, r}

Collect(h, cc, cbs, ent, r) ==
    [x \in (DOMAIN h) \cap Reachable(cc, cbs, ent, r) |-> h[x]]

\* The reference of a new object with the given id.
NewRef(h, id) ==
    LET free == {row \in {0, 1} : RefOf(id, row) \notin DOMAIN h}
    IN  RefOf(id, CHOOSE row \in free : \A j \in free : row <= j)

----------------------------------------------------------------------------
(* enterCallContext, lines 26-36 *)

\* Frees the previously active call context whatever its pending_calls.
EvictPrevious_IgnoresPending(cc, h, ent, call_context) ==
    IF IsObject(ent) /\ ent # call_context
    THEN MapDelete(cc, h[ent].id)
    ELSE cc

\* Never frees a call context.
EvictPrevious_Never(cc, h, ent, call_context) == cc

\* Frees the call context that is being activated instead of the previous one.
EvictPrevious_WrongContext(cc, h, ent, call_context) ==
    IF IsObject(ent) /\ ent # call_context /\ h[ent].pending_calls = 0
       /\ IsObject(call_context)
    THEN MapDelete(cc, h[call_context].id)
    ELSE cc

\* lines 27-32: free the previously active call context if it has no outgoing calls
EvictPrevious(cc, h, ent, call_context) ==
    IF IsObject(ent) /\ ent # call_context /\ h[ent].pending_calls = 0
    THEN MapDelete(cc, h[ent].id)
    ELSE cc

\* lines 34-35
ResetOutcome(h, call_context) ==
    [h EXCEPT ![call_context].replied = Null, ![call_context].rejected = Null]

----------------------------------------------------------------------------
(* The record of allocations, for one of the two identifier streams: how   *)
(* many ids it has returned (count), whether they were 0, 1, 2, ... in     *)
(* this order up to the mark (first), the id returned last (last), and the *)
(* mark: the number N of allocations after which the registry was found    *)
(* cleared (no callback left; no call context left but the newest one).    *)
(* The mark is set at one allocation that finds the registry cleared, any  *)
(* of them; the record ends after N more allocations, or after MaxN        *)
(* allocations without a mark.                                             *)

NoHist == [stream |-> "none", count |-> 0, mark |-> 0, first |-> TRUE, last |-> 0]

Record(h, stream, id, cleared, take) ==
    IF h.stream # stream THEN h
    ELSE LET mark == IF h.mark = 0 /\ cleared /\ take /\ h.count >= 1
                     THEN h.count ELSE h.mark
             count == h.count + 1
         IN  IF (mark = 0 /\ count > MaxN) \/ (mark > 0 /\ count > 2 * mark)
             THEN NoHist
             ELSE [stream |-> stream, count |-> count, mark |-> mark,
                   first |-> h.first /\ (mark > 0 \/ id = h.count),
                   last |-> id]

\* Every call context is gone but the one created last (hist.last, when the
\* call contexts are recorded): it is active, so that nothing evicts it.
ContextsCleared ==
    /\ DOMAIN call_contexts \subseteq {hist.last}
    /\ IsObject(entered_call_context)
    /\ heap[entered_call_context].id = hist.last

----------------------------------------------------------------------------
InitEngine ==
    /\ call_context_id = 0
    /\ call_contexts = << >>
    /\ callback_id = 0
    /\ callbacks = << >>
    /\ entered_call_context = Null
    /\ heap = << >>
    /\ pc = "idle"
    /\ run = NoTask
    /\ reaction = NoReaction
    /\ ret = Null

Init == InitEngine /\ hist = NoHist

----------------------------------------------------------------------------
(* executeEndpoint, lines 60-66: newCallContext, enterCallContext, and the *)
(* call of the method, which runs as the handler `run` until it returns.   *)

\* lines 40-48
NewCallContextObject(id) ==
    [id |-> id, replied |-> Null, rejected |-> Null, pending_calls |-> 0]

ExecuteEndpoint ==
    /\ pc = "idle"
    /\ LET new_call_context == NewRef(heap, call_context_id)
           h1  == MapSet(heap, new_call_context, NewCallContextObject(call_context_id))
           cc1 == MapSet(call_contexts, call_context_id, new_call_context)
       IN  IF LoopEnds(DOMAIN cc1)
           THEN LET cc2 == EvictPrevious(cc1, h1, entered_call_context, new_call_context)
                    h2  == ResetOutcome(h1, new_call_context)
                IN  /\ call_context_id' = NextId(call_context_id, DOMAIN cc1)
                    /\ call_contexts' = cc2
                    /\ entered_call_context' = new_call_context
                    /\ heap' = Collect(h2, cc2, callbacks, new_call_context, new_call_context)
                    /\ pc' = "method"
                    /\ run' = new_call_context
                    /\ \E take \in BOOLEAN :
                          hist' = Record(hist, "call_contexts", call_context_id,
                                         ContextsCleared, take)
           ELSE \* the loop of lines 52-54 never ends: every id is a key
                /\ call_context_id' = Mask(call_context_id + 1)
                /\ call_contexts' = cc1
                /\ heap' = h1
                /\ pc' = "loop_ctx"
                /\ UNCHANGED <<entered_call_context, run, hist>>
    /\ UNCHANGED <<callback_id, callbacks, reaction, ret>>

\* one more round of the loop of lines 52-54 when every id is a key
SpinNewCallContext ==
    /\ pc = "loop_ctx"
    /\ call_context_id \in DOMAIN call_contexts
    /\ call_context_id' = Mask(call_context_id + 1)
    /\ UNCHANGED <<call_contexts, callback_id, callbacks, entered_call_context,
                   heap, pc, run, reaction, ret, hist>>

----------------------------------------------------------------------------
(* The handler: the method called at line 66, or its continuation that a   *)
(* settled promise resumes. It calls createCallback and removeCallback and *)
(* then returns a value, throws, or suspends on promises of callbacks.     *)

InHandler == pc \in {"method", "job"}

\* The callbacks a handler can suspend on: those created in its own context.
Awaitable(t) == {k \in DOMAIN callbacks :
                    callbacks[k].owner = t /\ callbacks[k].waiter = NoTask}

\* lines 73-77 for the method; for a resumed handler the reaction of lines
\* 74-75 is already attached.
ReturnOfEndpoint ==
    IF pc = "method" THEN entered_call_context ELSE ret

\* The handler's promise settles: fulfilled (kind "replied") or rejected (kind
\* "rejected"). The reaction of lines 74-75 is queued. The value a handler
\* settles with is written as the handler itself, so that a stored value
\* tells which invocation produced it.
HandlerSettles(kind) ==
    /\ InHandler
    /\ reaction' = [kind |-> kind, val |-> run]
    /\ pc' = "settle"
    /\ run' = NoTask
    /\ ret' = ReturnOfEndpoint
    /\ heap' = Collect(heap, call_contexts, callbacks, entered_call_context, NoTask)
    /\ UNCHANGED <<call_context_id, call_contexts, callback_id, callbacks,
                   entered_call_context, hist>>

\* The handler awaits the promises of the callbacks in W (all of them).
HandlerSuspends(W) ==
    /\ InHandler
    /\ W \subseteq Awaitable(run)
    /\ callbacks' = [k \in DOMAIN callbacks |->
                        IF k \in W THEN [callbacks[k] EXCEPT !.waiter = run]
                        ELSE callbacks[k]]
    /\ pc' = "idle"
    /\ run' = NoTask
    /\ ret' = ReturnOfEndpoint
    /\ heap' = Collect(heap, call_contexts, callbacks', entered_call_context, NoTask)
    /\ UNCHANGED <<call_context_id, call_contexts, callback_id,
                   entered_call_context, reaction, hist>>

\* line 66: the method throws synchronously, executeEndpoint ends there.
MethodThrows ==
    /\ pc = "method"
    /\ pc' = "thrown"
    /\ run' = NoTask
    /\ ret' = Null
    /\ heap' = Collect(heap, call_contexts, callbacks, entered_call_context, NoTask)
    /\ UNCHANGED <<call_context_id, call_contexts, callback_id, callbacks,
                   entered_call_context, reaction, hist>>

\* A reaction with its two callbacks exchanged: a fulfilment is stored in
\* rejected, a rejection in replied.
RunReaction_Swapped ==
    /\ pc = "settle"
    /\ heap' = IF ~IsObject(entered_call_context) THEN heap
               ELSE IF reaction.kind = "replied"
               THEN [heap EXCEPT ![entered_call_context].rejected = reaction.val]
               ELSE [heap EXCEPT ![entered_call_context].replied = reaction.val]
    /\ reaction' = NoReaction
    /\ pc' = "idle"
    /\ UNCHANGED <<call_context_id, call_contexts, callback_id, callbacks,
                   entered_call_context, run, ret, hist>>

\* lines 74-75: the reaction stores the result in the active call context.
RunReaction ==
    /\ pc = "settle"
    /\ heap' = IF ~IsObject(entered_call_context) THEN heap
               ELSE IF reaction.kind = "replied"
               THEN [heap EXCEPT ![entered_call_context].replied = reaction.val]
               ELSE [heap EXCEPT ![entered_call_context].rejected = reaction.val]
    /\ reaction' = NoReaction
    /\ pc' = "idle"
    /\ UNCHANGED <<call_context_id, call_contexts, callback_id, callbacks,
                   entered_call_context, run, ret, hist>>

----------------------------------------------------------------------------
(* createCallback, lines 109-132 *)

\* A createCallback that takes the id before it reads the call context.
CreateCallbackWithoutContext_TakesId ==
    /\ pc' = "thrown"
    /\ ret' = Null
    /\ callback_id' = Mask(callback_id + 1)
    /\ UNCHANGED <<callbacks, heap, hist>>

\* lines 110-115 when no call context is active: the promise of line 112 is
\* dropped and line 115 throws a TypeError reading `id` of null.
CreateCallbackWithoutContext ==
    /\ pc' = "thrown"
    /\ ret' = Null
    /\ UNCHANGED <<callback_id, callbacks, heap, hist>>

\* A createCallback that does not count the call.
AddPendingCall_Forgets(h, call_context) == h

\* line 122
AddPendingCall(h, call_context) ==
    [h EXCEPT ![call_context].pending_calls = @ + 1]

CreateCallback ==
    /\ pc \in {"idle", "method", "job"}
    /\ IF ~IsObject(entered_call_context)
       THEN CreateCallbackWithoutContext
       ELSE /\ heap[entered_call_context].pending_calls < MaxPending
            /\ LET callback == [call_context_id |-> heap[entered_call_context].id,
                                owner |-> entered_call_context,
                                waiter |-> NoTask]
                   cbs1 == MapSet(callbacks, callback_id, callback)
               IN  /\ callbacks' = cbs1
                   /\ heap' = AddPendingCall(heap, entered_call_context)
                   /\ IF LoopEnds(DOMAIN cbs1)
                      THEN /\ callback_id' = NextId(callback_id, DOMAIN cbs1)
                           /\ \E take \in BOOLEAN :
                                 hist' = Record(hist, "callbacks", callback_id,
                                                DOMAIN callbacks = {}, take)
                           /\ UNCHANGED <<pc, ret>>
                      ELSE \* the loop of lines 127-129 never ends
                           /\ callback_id' = Mask(callback_id + 1)
                           /\ pc' = "loop_cb"
                           /\ UNCHANGED <<ret, hist>>
    /\ UNCHANGED <<call_context_id, call_contexts, entered_call_context, run, reaction>>

SpinCreateCallback ==
    /\ pc = "loop_cb"
    /\ callback_id \in DOMAIN callbacks
    /\ callback_id' = Mask(callback_id + 1)
    /\ UNCHANGED <<call_context_id, call_contexts, callbacks, entered_call_context,
                   heap, pc, run, reaction, ret, hist>>

----------------------------------------------------------------------------
(* removeCallback, lines 135-137 *)

\* The handler t will never be resumed: its promises lose their waiter.
Forget(cbs, t) ==
    [k \in DOMAIN cbs |->
        IF t # NoTask /\ cbs[k].waiter = t THEN [cbs[k] EXCEPT !.waiter = NoTask]
        ELSE cbs[k]]

WaiterOf(cbs, id) == IF id \in DOMAIN cbs THEN cbs[id].waiter ELSE NoTask

RemoveCallback(id) ==
    /\ pc \in {"idle", "method", "job"}
    /\ callbacks' = MapDelete(Forget(callbacks, WaiterOf(callbacks, id)), id)
    /\ heap' = Collect(heap, call_contexts, callbacks', entered_call_context, run)
    /\ UNCHANGED <<call_context_id, call_contexts, callback_id,
                   entered_call_context, pc, run, reaction, ret, hist>>

----------------------------------------------------------------------------
(* executeReplyCallback, lines 81-92, and executeRejectCallback, lines     *)
(* 95-106. They differ in the function they call at line 89 / 103:         *)
(* resolving the promise resumes the waiting handler once every promise it *)
(* awaits is resolved, rejecting it resumes the handler at once.           *)

\* A settled promise that resumes nobody.
Resumes_Never(cbs, t, rejecting) == FALSE

Resumes(cbs, t, rejecting) ==
    /\ t # NoTask
    /\ rejecting \/ ~(\E k \in DOMAIN cbs : cbs[k].waiter = t)

\* A lookup that tolerates a missing callback: the call returns the active
\* call context as if the callback had run.
UnknownCallback_Ignored ==
    /\ pc' = "idle"
    /\ ret' = entered_call_context
    /\ UNCHANGED <<call_contexts, callbacks, entered_call_context, heap, run>>

\* lines 82-85 / 96-99 when callbacks.get finds nothing: the delete of line 83
\* removes nothing and line 85 throws a TypeError reading `call_context_id`
\* of undefined.
UnknownCallback ==
    /\ pc' = "thrown"
    /\ ret' = Null
    /\ UNCHANGED <<call_contexts, callbacks, entered_call_context, heap, run>>

\* A lookup that takes whichever call context is active.
LookupContext_Active(callback) == entered_call_context

\* A lookup with the id of the callback instead of the id it carries.
LookupContext_ByCallbackId(callback) ==
    MapGet(call_contexts, CHOOSE k \in DOMAIN callbacks : callbacks[k] = callback)

\* line 85 / 99: call_contexts.get(callback.call_context_id)
LookupContext(callback) == MapGet(call_contexts, callback.call_context_id)

ExecuteCallback(id, rejecting) ==
    /\ pc = "idle"
    /\ IF id \notin DOMAIN callbacks
       THEN UnknownCallback
       ELSE LET callback == callbacks[id]
                cbs1 == MapDelete(callbacks, id)
                call_context == LookupContext(callback)
                cc1 == EvictPrevious(call_contexts, heap, entered_call_context, call_context)
            IN  IF ~IsObject(call_context)
                THEN \* line 34: TypeError writing `replied` of undefined
                     /\ callbacks' = cbs1
                     /\ call_contexts' = cc1
                     /\ entered_call_context' = Undefined
                     /\ heap' = Collect(heap, cc1, cbs1, Undefined, NoTask)
                     /\ pc' = "thrown"
                     /\ ret' = Null
                     /\ UNCHANGED run
                ELSE LET h1 == ResetOutcome(heap, call_context)
                         h2 == [h1 EXCEPT ![call_context].pending_calls = @ - 1]
                         t  == callback.waiter
                         go == Resumes(cbs1, t, rejecting)
                         cbs2 == IF go THEN Forget(cbs1, t) ELSE cbs1
                     IN  /\ callbacks' = cbs2
                         /\ call_contexts' = cc1
                         /\ entered_call_context' = call_context
                         /\ run' = IF go THEN t ELSE NoTask
                         /\ pc' = IF go THEN "job" ELSE "idle"
                         /\ heap' = Collect(h2, cc1, cbs2, call_context, run')
                         /\ ret' = call_context
    /\ UNCHANGED <<call_context_id, callback_id, reaction, hist>>

ExecuteReplyCallback(id) == ExecuteCallback(id, FALSE)
ExecuteRejectCallback(id) == ExecuteCallback(id, TRUE)

----------------------------------------------------------------------------
\* An engine call that throws leaves the thread at "thrown": the exception is
\* with the caller, which gets no value. The caller handles it and the engine
\* is idle again.
CallerCatches ==
    /\ pc = "thrown"
    /\ pc' = "idle"
    /\ UNCHANGED <<call_context_id, call_contexts, callback_id, callbacks,
                   entered_call_context, heap, run, reaction, ret, hist>>

----------------------------------------------------------------------------
\* executeEndpoint, offered while it leaves at most MaxContexts call contexts
BoundedExecuteEndpoint ==
    ExecuteEndpoint /\ Cardinality(DOMAIN call_contexts') <= MaxContexts

Next ==
    \/ BoundedExecuteEndpoint
    \/ \E kind \in {"replied", "rejected"} : HandlerSettles(kind)
    \/ \E W \in SUBSET Ids : HandlerSuspends(W)
    \/ MethodThrows
    \/ RunReaction
    \/ CreateCallback
    \/ SpinCreateCallback
    \/ \E id \in Ids : RemoveCallback(id)
    \/ \E id \in Ids : ExecuteReplyCallback(id)
    \/ \E id \in Ids : ExecuteRejectCallback(id)
    \/ CallerCatches

Spec == Init /\ [][Next]_vars

\* The same engine with the allocations of one stream recorded, until the
\* record ends.
InitReuse ==
    /\ InitEngine
    /\ \E stream \in {"callbacks", "call_contexts"} :
            hist = [NoHist EXCEPT !.stream = stream]

Recording == hist.stream # "none"

NextReuse ==
    \/ Recording /\ BoundedExecuteEndpoint
    \/ Recording /\ \E kind \in {"replied", "rejected"} : HandlerSettles(kind)
    \/ Recording /\ \E W \in SUBSET Ids : HandlerSuspends(W)
    \/ Recording /\ MethodThrows
    \/ Recording /\ RunReaction
    \/ Recording /\ CreateCallback
    \/ Recording /\ SpinCreateCallback
    \/ Recording /\ \E id \in Ids : RemoveCallback(id)
    \/ Recording /\ \E id \in Ids : ExecuteReplyCallback(id)
    \/ Recording /\ \E id \in Ids : ExecuteRejectCallback(id)
    \/ Recording /\ CallerCatches

SpecReuse == InitReuse /\ [][NextReuse]_vars

\* The engine without the cap on the call contexts, so that call_contexts can
\* fill up, and with a host and handlers that never call removeCallback.
NextFull ==
    \/ ExecuteEndpoint
    \/ SpinNewCallContext
    \/ \E kind \in {"replied", "rejected"} : HandlerSettles(kind)
    \/ \E W \in SUBSET Ids : HandlerSuspends(W)
    \/ MethodThrows
    \/ RunReaction
    \/ CreateCallback
    \/ SpinCreateCallback
    \/ \E id \in Ids : ExecuteReplyCallback(id)
    \/ \E id \in Ids : ExecuteRejectCallback(id)
    \/ CallerCatches

SpecFull == Init /\ [][NextFull]_vars

TypeOK ==
    /\ call_context_id \in Ids
    /\ callback_id \in Ids
    /\ DOMAIN call_contexts \subseteq Ids
    /\ DOMAIN callbacks \subseteq Ids
    /\ \A k \in DOMAIN call_contexts : call_contexts[k] \in DOMAIN heap
    /\ entered_call_context \in DOMAIN heap \cup {Null, Undefined}
    /\ pc \in {"idle", "method", "job", "settle", "thrown", "loop_ctx", "loop_cb"}

----------------------------------------------------------------------------
(* Properties *)

Active == entered_call_context
Registered == {call_contexts[k] : k \in DOMAIN call_contexts}
\* The registered callbacks that the call context r issued.
CallbacksOf(r) == {c \in DOMAIN callbacks : callbacks[c].owner = r}
Settled(c) == c.replied # Null \/ c.rejected # Null

\* C1: a step removes a call context from call_contexts only if that context
\* is not the one the step leaves active and its pending_calls is 0.
C1_EvictsOnlyInactiveWithoutPending ==
    [][\A k \in DOMAIN call_contexts :
          (k \notin DOMAIN call_contexts' \/ call_contexts'[k] # call_contexts[k])
          => /\ call_contexts[k] # entered_call_context'
             /\ heap[call_contexts[k]].pending_calls = 0]_vars

\* The call context 0 was evicted when the call context 1 was activated.
C1_Witness ==
    /\ IsObject(Active)
    /\ heap[Active].id = 1
    /\ 0 \notin DOMAIN call_contexts

\* C2: createCallback in the active call context adds exactly 1 to its
\* pending_calls; executeReplyCallback, executeRejectCallback and
\* removeCallback of a registered callback each take exactly 1 from the
\* pending_calls of the call context that issued it.
C2_PendingCallsChangeByOne ==
    [][/\ (IsObject(Active) /\ CreateCallback)
          => heap'[Active].pending_calls = heap[Active].pending_calls + 1
       /\ \A id \in DOMAIN callbacks :
            (ExecuteReplyCallback(id) \/ ExecuteRejectCallback(id) \/ RemoveCallback(id))
            => heap'[callbacks[id].owner].pending_calls
                 = heap[callbacks[id].owner].pending_calls - 1]_vars

\* C3: between the calls of the entry points, pending_calls of every registered
\* call context is the number of registered callbacks that carry its id.
C3_PendingCallsCountsCallbacks ==
    pc = "idle" =>
        \A k \in DOMAIN call_contexts :
            heap[call_contexts[k]].pending_calls
              = Cardinality({c \in DOMAIN callbacks : callbacks[c].call_context_id = k})

\* C4: once replied or rejected of a registered call context is set, no step
\* clears or changes either field while the context stays registered.
C4_OutcomeSetOnce ==
    [][\A k \in DOMAIN call_contexts \cap DOMAIN call_contexts' :
          (call_contexts'[k] = call_contexts[k] /\ Settled(heap[call_contexts[k]]))
          => /\ heap'[call_contexts[k]].replied = heap[call_contexts[k]].replied
             /\ heap'[call_contexts[k]].rejected = heap[call_contexts[k]].rejected]_vars

\* C5: executeReplyCallback and executeRejectCallback with an id that is not a
\* key of callbacks throw and leave both maps, every call context, both
\* cursors and the active call context as they were.
C5_UnknownCallbackThrowsAndChangesNothing ==
    [][\A id \in Ids \ DOMAIN callbacks :
          (ExecuteReplyCallback(id) \/ ExecuteRejectCallback(id))
          => /\ pc' = "thrown"
             /\ UNCHANGED <<call_contexts, callbacks, heap, call_context_id,
                            callback_id, entered_call_context>>]_vars

\* A delivery threw while a settled call context is active and callbacks are
\* registered (a method that throws leaves an unsettled active context, and
\* createCallback throws only without an active context).
C5_Witness ==
    /\ pc = "thrown"
    /\ IsObject(Active)
    /\ Settled(heap[Active])
    /\ DOMAIN callbacks # {}

\* C6: executeEndpoint registers the new call context under a key that was
\* not in call_contexts, and its id differs from the id of every other
\* registered call context, also after the cursor has wrapped around.
C6_NewContextGetsFreshId ==
    [][\A k \in DOMAIN call_contexts' :
          (k \notin DOMAIN call_contexts \/ call_contexts'[k] # call_contexts[k])
          => /\ k \notin DOMAIN call_contexts
             /\ heap'[call_contexts'[k]].id = k
             /\ \A j \in DOMAIN call_contexts' \ {k} :
                    heap'[call_contexts'[j]].id # k]_vars

\* A call context was created with id 0 after the cursor wrapped around, while
\* the call context 1 is still registered; the cursor skipped 1.
C6_Witness ==
    /\ pc = "method"
    /\ heap[Active].id = 0
    /\ 1 \in DOMAIN call_contexts
    /\ call_context_id = 2

\* C7: every registered call context is the active one or has pending_calls > 0
\* (in every state but inside the loop of newCallContext that never ends).
C7_RegisteredIsActiveOrPending ==
    pc # "loop_ctx" =>
        \A r \in Registered : r = Active \/ heap[r].pending_calls > 0

\* Two call contexts are registered: the active one with pending_calls 0 and
\* an inactive one.
C7_Witness ==
    /\ pc = "idle"
    /\ IsObject(Active)
    /\ heap[Active].pending_calls = 0
    /\ \E r \in Registered : r # Active

\* C8: the active call context, when there is one, is registered in
\* call_contexts under its own id.
C8_ActiveIsRegistered ==
    IsObject(Active) => MapGet(call_contexts, heap[Active].id) = Active

\* A delivery has made the call context 0 active again while the call context 1
\* is registered.
C8_Witness ==
    /\ pc = "idle"
    /\ IsObject(Active)
    /\ heap[Active].id = 0
    /\ ret = Active
    /\ 1 \in DOMAIN call_contexts

\* C9: when no callback issued by the active call context is registered any
\* more (each was delivered or removed), the step that activates another
\* call context removes it from call_contexts.
C9_AbandonedCallsDoNotBlockEviction ==
    [][\A r \in DOMAIN heap :
          (/\ Active = r
           /\ IsObject(entered_call_context')
           /\ entered_call_context' # r
           /\ CallbacksOf(r) = {})
          => \A k \in DOMAIN call_contexts' : call_contexts'[k] # r]_vars

\* C10 as stated: a fresh stream returned 0..N-1, the registry was then
\* cleared, and the next N allocations return 0..N-1 again.
C10_ReuseRestartsAtZero ==
    (hist.mark > 0 /\ hist.first /\ hist.count > hist.mark)
    => hist.last = hist.count - hist.mark - 1

\* C10, amended: a fresh stream returned 0..N-1 (N < 2^IdBits), the registry
\* was then cleared (of every callback; of every call context but the one
\* created last), and the next N allocations return N..2N-1 modulo 2^IdBits:
\* the cursor goes on from N.
C10_ReuseContinuesFromCursor ==
    (hist.mark > 0 /\ hist.first /\ hist.count > hist.mark)
    => hist.last = Mask(hist.count - 1)

\* The callbacks 0..MaxN-1 were created and all removed or delivered, and
\* MaxN more were created since.
C10_Witness ==
    /\ hist.stream = "callbacks"
    /\ hist.first
    /\ hist.mark = MaxN
    /\ hist.count = 2 * MaxN

\* C11: executeReplyCallback and executeRejectCallback of a registered
\* callback make the call context that issued it the active one, return that
\* context, and a handler they resume runs with that context active,
\* whichever context was active before.
C11_DeliveryActivatesOwner ==
    [][\A id \in DOMAIN callbacks :
          (ExecuteReplyCallback(id) \/ ExecuteRejectCallback(id))
          => /\ entered_call_context' = callbacks[id].owner
             /\ ret' = callbacks[id].owner
             /\ pc' \in {"idle", "job"}
             /\ (pc' = "job") = (run' # NoTask)]_vars

\* A delivery resumed the handler of the call context 0 while the call
\* context 1, active before it, stays registered.
C11_Witness ==
    /\ pc = "job"
    /\ heap[Active].id = 0
    /\ ret = Active
    /\ 1 \in DOMAIN call_contexts
    /\ call_context_id = 2

\* The method of executeEndpoint returns a value at once, having created no
\* callback.
ReturnsImmediateValue ==
    /\ pc = "method"
    /\ heap[run].pending_calls = 0
    /\ HandlerSettles("replied")

\* The step activates a call context other than r, which was the active one
\* and had no pending calls.
LeavesIdle(r) ==
    /\ Active = r
    /\ heap[r].pending_calls = 0
    /\ IsObject(entered_call_context')
    /\ entered_call_context' # r

\* C12 as stated: when the method returns a value v at once, the call context
\* that executeEndpoint returns holds replied = v at the moment it is
\* returned, has pending_calls = 0, and the next activation of another call
\* context removes it from call_contexts.
C12_ImmediateValueSettledAtReturn ==
    [][/\ ReturnsImmediateValue
          => /\ ret' = run
             /\ heap'[ret'].pending_calls = 0
             /\ heap'[ret'].replied = run
       /\ \A r \in DOMAIN heap : LeavesIdle(r) => r \notin Registered']_vars

\* C12, amended: when the method returns a value v at once, the call context
\* that executeEndpoint returns has pending_calls = 0 and is still unsettled
\* at the moment it is returned, with the reaction that stores v queued; the
\* reaction, run before the next entry point, sets replied = v on the
\* returned context; and the next activation of another call context removes
\* it from call_contexts.
C12_ImmediateValueSettledByReaction ==
    [][/\ ReturnsImmediateValue
          => /\ ret' = run
             /\ heap'[ret'].pending_calls = 0
             /\ ~Settled(heap'[ret'])
             /\ reaction' = [kind |-> "replied", val |-> run]
       /\ (RunReaction /\ reaction.kind = "replied")
          => /\ heap'[ret].replied = reaction.val
             /\ heap'[ret].rejected = heap[ret].rejected
             /\ heap'[ret].pending_calls = heap[ret].pending_calls
       /\ \A r \in DOMAIN heap : LeavesIdle(r) => r \notin Registered']_vars

\* No callback was ever created; the method of the call context 1 returned a
\* value at once, which the reaction stored; the call context 0 was removed
\* when the call context 1 was activated.
C12_Witness ==
    /\ pc = "idle"
    /\ callback_id = 0
    /\ DOMAIN callbacks = {}
    /\ DOMAIN call_contexts = {1}
    /\ ret = Active
    /\ heap[Active].id = 1
    /\ heap[Active].replied = Active
    /\ heap[Active].pending_calls = 0

\* The method of executeEndpoint has created one callback and suspends on its
\* promise.
SuspendsOnOneCall ==
    /\ pc = "method"
    /\ heap[run].pending_calls = 1
    /\ \E id \in CallbacksOf(run) : HandlerSuspends({id})

\* The handler t awaits the promise of the callback id and no other.
AwaitsOnly(t, id) ==
    /\ t # NoTask
    /\ {k \in DOMAIN callbacks : callbacks[k].waiter = t} = {id}

\* C13: a method that creates one callback and suspends on it makes
\* executeEndpoint return its call context unsettled with pending_calls = 1;
\* executeReplyCallback of that callback, whatever ran in between, activates
\* the context, takes pending_calls down by one and resumes the handler; when
\* the resumed handler returns a value, the reaction stores it in replied of
\* that same context.
C13_SuspendedCallResumesAndSettles ==
    [][/\ SuspendsOnOneCall
          => /\ ret' = run
             /\ ~Settled(heap'[run])
             /\ heap'[run].pending_calls = 1
       /\ \A id \in DOMAIN callbacks :
            (AwaitsOnly(callbacks[id].waiter, id) /\ ExecuteReplyCallback(id))
            => /\ pc' = "job"
               /\ run' = callbacks[id].waiter
               /\ run' = callbacks[id].owner
               /\ entered_call_context' = run'
               /\ ret' = run'
               /\ run' \in Registered'
               /\ heap'[run'].pending_calls = heap[run'].pending_calls - 1
       /\ (pc = "job" /\ HandlerSettles("replied"))
          => /\ ret' = run
             /\ entered_call_context' = run
             /\ reaction' = [kind |-> "replied", val |-> run]
       /\ (RunReaction /\ reaction.kind = "replied" /\ IsObject(reaction.val))
          => /\ heap'[reaction.val].replied = reaction.val
             /\ heap'[reaction.val].pending_calls = heap[reaction.val].pending_calls]_vars

\* One callback was ever created, by the call context 0, whose method
\* suspended; the call context 1 ran in between; the delivery made the call
\* context 0 active again and its resumed handler returned a value, which is
\* stored; pending_calls is back to 0.
C13_Witness ==
    /\ pc = "idle"
    /\ callback_id = 1
    /\ DOMAIN callbacks = {}
    /\ call_context_id = 2
    /\ IsObject(Active)
    /\ heap[Active].id = 0
    /\ heap[Active].replied = Active
    /\ heap[Active].pending_calls = 0

\* C14: whatever the order in which the callbacks of a call context were
\* delivered, the delivery of the last one leaves the same bookkeeping:
\* pending_calls = 0, no callback of the context registered, and the outcome
\* that the context's handler has set, if it has settled after an earlier
\* delivery, still in place (set once, not cleared by the later delivery).
C14_SettlementOrderDoesNotMatter ==
    [][\A id \in DOMAIN callbacks :
          (/\ ExecuteReplyCallback(id) \/ ExecuteRejectCallback(id)
           /\ CallbacksOf(callbacks[id].owner) = {id}
           /\ heap[callbacks[id].owner].pending_calls = 1)
          => LET c == callbacks[id].owner
             IN  /\ heap'[c].pending_calls = 0
                 /\ {k \in DOMAIN callbacks' : callbacks'[k].owner = c} = {}
                 /\ Settled(heap[c])
                    => /\ heap'[c].replied = heap[c].replied
                       /\ heap'[c].rejected = heap[c].rejected]_vars

\* C15: createCallback without an active call context throws and changes
\* nothing: no callback is registered, the cursors stay, no call context
\* changes.
C15_CreateCallbackWithoutContextThrows ==
    [][(~IsObject(entered_call_context) /\ CreateCallback)
          => /\ pc' = "thrown"
             /\ UNCHANGED <<callbacks, callback_id, heap, call_contexts,
                            call_context_id, entered_call_context>>]_vars

\* An engine call threw before any call context was ever active, with
\* nothing registered and both cursors at 0.
C15_Witness ==
    /\ pc = "thrown"
    /\ entered_call_context = Null
    /\ callback_id = 0
    /\ DOMAIN callbacks = {}
    /\ DOMAIN heap = {}

\* C16: a handler of a callback is invoked only by executeReplyCallback or
\* executeRejectCallback of its id while it is registered, one handler per
\* call, and that call unregisters the callback; removeCallback unregisters
\* it and invokes nothing; a call with an id that is not registered invokes
\* nothing and registers nothing. So each callback is settled at most once.
C16_CallbackSettledAtMostOnce ==
    [][/\ \A id \in Ids :
            (ExecuteReplyCallback(id) \/ ExecuteRejectCallback(id) \/ RemoveCallback(id))
            => /\ id \notin DOMAIN callbacks'
               /\ DOMAIN callbacks' = DOMAIN callbacks \ {id}
               /\ id \notin DOMAIN callbacks => run' = run /\ pc' # "job"
               /\ RemoveCallback(id) => run' = run /\ pc' = pc
       /\ (pc # "job" /\ pc' = "job")
          => \E id \in DOMAIN callbacks \ DOMAIN callbacks' :
                /\ ExecuteReplyCallback(id) \/ ExecuteRejectCallback(id)
                /\ run' = callbacks[id].waiter]_vars

\* The only call context created two callbacks; the callback 0 was delivered
\* (pending_calls is 1), and a later delivery of a callback that is not
\* registered threw, while the callback 1 is registered.
C16_Witness ==
    /\ pc = "thrown"
    /\ call_context_id = 1
    /\ callback_id = 2
    /\ DOMAIN callbacks = {1}
    /\ IsObject(Active)
    /\ heap[Active].pending_calls = 1

\* The ids strictly between a and b in the cyclic order x -> (x + 1) mod
\* 2^IdBits, going up from a.
Between(a, b) ==
    LET dist == IF b = a THEN MAX_ID_MASK + 1 ELSE (b - a + MAX_ID_MASK + 1) % (MAX_ID_MASK + 1)
    IN  {(a + d) % (MAX_ID_MASK + 1) : d \in 1..(dist - 1)}

\* The cursor `next` is the first id after `returned`, in the cyclic order,
\* that is not in keys.
FirstFreeAfter(returned, keys, next) ==
    /\ next \in Ids
    /\ next \notin keys
    /\ Between(returned, next) \subseteq keys
    /\ (returned = MAX_ID_MASK /\ 0 \notin keys) => next = 0

\* C17: an allocation that ends registers the new entry under the value the
\* cursor held before the call, and leaves the cursor at the first id after
\* it, in the cyclic order, that is not a key of the registry with the new
\* entry in it; cursors and ids stay in 0..MAX_ID_MASK, and 0 follows
\* MAX_ID_MASK.
C17_AllocationReturnsCursorAndAdvances ==
    [][/\ (CreateCallback /\ IsObject(entered_call_context) /\ pc' # "loop_cb")
          => /\ DOMAIN callbacks' = DOMAIN callbacks \cup {callback_id}
             /\ callbacks'[callback_id].waiter = NoTask
             /\ FirstFreeAfter(callback_id, DOMAIN callbacks', callback_id')
       /\ (ExecuteEndpoint /\ pc' # "loop_ctx")
          => /\ heap'[entered_call_context'].id = call_context_id
             /\ call_contexts'[call_context_id] = entered_call_context'
             /\ FirstFreeAfter(call_context_id,
                               DOMAIN call_contexts \cup {call_context_id},
                               call_context_id')]_vars

\* The callback 3, the largest id, was created and the cursor went on to 0
\* (the callback 0 was created again) or skipped the callback 0: it is at 1
\* with the callbacks 0 and 3 registered.
C17_Witness ==
    /\ pc \in {"idle", "method", "job"}
    /\ callback_id = 1
    /\ DOMAIN callbacks = {0, MAX_ID_MASK}

\* C18: an allocation ends when the registry, with the new entry in it,
\* does not hold every id, and then the cursor is not a key; the allocation
\* that fills the registry enters the loop and never leaves it: the loop
\* condition holds at every round, nothing else runs, no error is thrown.
C18_AllocationEndsUnlessRegistryFull ==
    [][/\ (CreateCallback /\ IsObject(entered_call_context))
          => IF DOMAIN callbacks \cup {callback_id} # Ids
             THEN pc' = pc /\ callback_id' \notin DOMAIN callbacks'
             ELSE pc' = "loop_cb" /\ DOMAIN callbacks' = Ids
       /\ ExecuteEndpoint
          => IF DOMAIN call_contexts \cup {call_context_id} # Ids
             THEN pc' = "method"
             ELSE pc' = "loop_ctx" /\ DOMAIN call_contexts' = Ids
       /\ pc = "loop_cb"
          => /\ callback_id \in DOMAIN callbacks
             /\ pc' = "loop_cb"
             /\ callbacks' = callbacks
             /\ callback_id' = Mask(callback_id + 1)
       /\ pc = "loop_ctx"
          => /\ call_context_id \in DOMAIN call_contexts
             /\ pc' = "loop_ctx"
             /\ call_contexts' = call_contexts
             /\ call_context_id' = Mask(call_context_id + 1)]_vars

\* executeEndpoint registered the call context MAX_ID_MASK, which filled
\* call_contexts, and the loop has stepped the cursor once around all the
\* ids, back to MAX_ID_MASK, without finding one that is free.
C18_Witness ==
    /\ pc = "loop_ctx"
    /\ DOMAIN call_contexts = Ids
    /\ call_context_id = MAX_ID_MASK
    /\ entered_call_context # call_contexts[MAX_ID_MASK]

\* C19: every registered callback carries the id of a registered call
\* context, and the call context registered under that id is the one that
\* was active when the callback was created: a delivery finds the owner.
C19_CallbackOwnerIsRegistered ==
    \A c \in DOMAIN callbacks :
        /\ callbacks[c].call_context_id \in DOMAIN call_contexts
        /\ LookupContext(callbacks[c]) = callbacks[c].owner
        /\ heap[callbacks[c].owner].id = callbacks[c].call_context_id

\* executeEndpoint has created a call context with id 0 after the cursor
\* wrapped around, while the call context MAX_ID_MASK is registered,
\* inactive, and owns a registered callback.
C19_Witness ==
    /\ pc = "method"
    /\ heap[Active].id = 0
    /\ call_context_id = 1
    /\ \E c \in DOMAIN callbacks :
          /\ callbacks[c].call_context_id = MAX_ID_MASK
          /\ callbacks[c].owner # Active

\* C20: the value a handler settles with (written as the handler's own call
\* context) is stored by the reaction in the call context that
\* executeEndpoint created for that handler: the reaction runs with that
\* context active, and no call context ever holds the value of another one.
C20_OutcomeStoredInOwnContext ==
    /\ pc = "settle" => reaction.val = entered_call_context
    /\ InHandler => run = entered_call_context
    /\ \A r \in DOMAIN heap :
          /\ heap[r].replied \in {Null, r}
          /\ heap[r].rejected \in {Null, r}

\* Two invocations are in flight: the call context 1 is registered with a
\* suspended handler; the call context 0, active again after a delivery,
\* holds the value its resumed handler returned.
C20_Witness ==
    /\ pc = "idle"
    /\ IsObject(Active)
    /\ heap[Active].id = 0
    /\ heap[Active].replied = Active
    /\ 1 \in DOMAIN call_contexts
    /\ ~Settled(heap[call_contexts[1]])
    /\ \E c \in DOMAIN callbacks : callbacks[c].waiter = call_contexts[1]

=============================================================================
